---- MODULE Spec2Model ----
(***************************************************************************)
(* Asynchronous download jobs: the job service (Redis job hashes,          *)
(* idempotency index, per-user active-job counter, processing set), the    *)
(* POST /v1/download/async handler, the BullMQ queue and the worker with   *)
(* its completed/failed event handlers.                                    *)
(*                                                                         *)
(* Every `await` of the handlers is a step, so that requests, workers and  *)
(* the un-awaited calls of the worker's event handlers interleave.  The    *)
(* API server and the workers are separate processes with their own redis  *)
(* connections; an attempt of a job may run on any worker.  The published  *)
(* messages are left out.                                                  *)
(***************************************************************************)
EXTENDS Integers, Sequences, FiniteSets, TLC

(***************************************************************************)
(* Bounds of the model                                                     *)
(***************************************************************************)
MaxJobs == 2            \* job ids that crypto.randomUUID() can hand out
NumReq == 2             \* creation requests handled concurrently
LimitRequests == 3      \* creation requests received in a run of SpecLimit
IdemRequests == 2       \* creation requests received in a run of SpecIdem
MaxIntervals == 5       \* progressIntervals ranges over 1..MaxIntervals
MaxTime == 1            \* Date.now() ranges over 0..MaxTime
MaxHeartbeats == 1      \* heartbeats written on one event stream
MaxEvents == 3          \* signals and error events the worker receives

Jobs == 1..MaxJobs
Reqs == 1..NumReq
Users == {"u1"}
NoKey == "none"                  \* no x-idempotency-key header
Keys == {"k1"}
NoJob == 0                       \* redis GET returned null
NaN == -1                        \* parseInt of a string that is not a number
Url == "url"                     \* a presigned URL
NotFoundMsg == "File not found in storage"
NoScore == -1                    \* zscore of an id that is not a member

VARIABLES
    jobs,        \* job:<id> hashes: [Jobs -> hash], the empty hash is an absent key
    jobTTL,      \* whether job:<id> carries an expiry
    idem,        \* idempotency:<key> -> job id or NoJob
    active,      \* user:<id>:active counters: [exists, val, ttl]
    processing,  \* the sorted set jobs:processing: per job id its score
                 \* (the Date.now() of its zadd) or NoScore
    now,         \* Date.now()
    call,        \* the call of a job service mutator made by a direct caller
                 \* of the service, with the store as it was at the call
    queue,       \* BullMQ job per id: [state, attemptsMade, user, key]
    worker,      \* position of processDownloadJob per job: [pc, i, n, url]
    tasks,       \* un-awaited calls issued by the worker's event handlers
    req,         \* creation requests in flight
    reply,       \* the response sent last, with what its request had seen
    nextId,      \* next job id handed out
    started,     \* number of creation requests received so far
    env,         \* the parsed environment (config/env.ts), fixed in a run
    origin,      \* per job id: the key of the request that drew it, and
                 \* whether that request has answered 202
    sub,         \* the subscriber of GET /v1/download/subscribe/:jobId: its
                 \* handler, its redis subscription and its event stream
    proc         \* the worker process: its shutdown and its exit

vars == <<jobs, jobTTL, idem, active, processing, queue, worker, tasks, req,
          reply, nextId, started, env, origin, now, call, sub, proc>>

store == <<jobs, jobTTL, idem, active, processing, queue>>

(***************************************************************************)
(* Redis hashes and the string encoding of job fields                      *)
(***************************************************************************)
EmptyHash == [f \in {} |-> ""]

HSet(h, upd) ==
    [f \in (DOMAIN h) \cup (DOMAIN upd) |->
        IF f \in DOMAIN upd THEN upd[f] ELSE h[f]]

Exists(h) == DOMAIN h # {}

\* String(n) for the numbers the program stores
String(n) == ToString(n)

\* booleans stored as 1 and 0
StringBoolNumeric(b) == IF b THEN "1" ELSE "0"

\* String(b) for a boolean
StringBool(b) == IF b THEN "true" ELSE "false"

\* the strings parseInt reads as a number
Numerals == {ToString(n) : n \in 0..100}

parseInt(s) ==
    IF s \in Numerals
    THEN CHOOSE n \in 0..100 : ToString(n) = s
    ELSE NaN

Field(h, f) == IF f \in DOMAIN h THEN h[f] ELSE "undefined"

\* createJob: the hash written by hset
createJobHash(jobId, userId) ==
    [id |-> String(jobId), userId |-> userId, status |-> "queued",
     progress |-> String(0), downloadUrl |-> "", error |-> "",
     canRetry |-> StringBool(FALSE), attempts |-> String(0),
     createdAt |-> String(now), updatedAt |-> String(now)]

\* getJob: decode the hash; x || null maps the empty string and a missing
\* field to null.  Null stands for the value null, which is not a string.
Null == "null"
getJob(h) ==
    [exists |-> Exists(h),
     id |-> Field(h, "id"),
     userId |-> Field(h, "userId"),
     status |-> Field(h, "status"),
     progress |-> parseInt(Field(h, "progress")),
     downloadUrl |-> IF Field(h, "downloadUrl") \in {"", "undefined"}
                     THEN Null ELSE Field(h, "downloadUrl"),
     error |-> IF Field(h, "error") \in {"", "undefined"}
               THEN Null ELSE Field(h, "error"),
     canRetry |-> Field(h, "canRetry") = "true",
     attempts |-> parseInt(Field(h, "attempts")),
     createdAt |-> parseInt(Field(h, "createdAt")),
     updatedAt |-> parseInt(Field(h, "updatedAt"))]

Job(j) == getJob(jobs[j])

\* getJob of a key that is absent: the handlers test it as null
NoBody == getJob(EmptyHash)

\* updateJobStatus: the updates written by one hset
statusUpdates(status, add) ==
    [f \in {"status", "updatedAt"} \cup DOMAIN add |->
        CASE f = "status" -> status
          [] f = "updatedAt" -> String(now)
          [] f = "progress" -> String(add[f])
          [] f = "downloadUrl" -> add[f]
          [] f = "error" -> add[f]
          [] f = "canRetry" -> StringBool(add[f])
          [] f = "attempts" -> String(add[f])]

updateJobStatus(h, status, add) == HSet(h, statusUpdates(status, add))

\* an updateJobProgress that publishes without writing
updateJobProgressUnwritten(h, progress) == h

\* updateJobProgress: the hset of the progress field
updateJobProgress(h, progress) ==
    HSet(h, [progress |-> String(progress), updatedAt |-> String(now)])

\* a progress computation that runs up to 100
intervalProgressPercent(i, n) == (i * 100) \div n

\* a progress computation that counts down instead of up
intervalProgressDescending(i, n) == 90 - ((i * 90) \div n)

\* worker.ts: progress reported after interval i of n
intervalProgress(i, n) ==
    LET p == (i * 90) \div n IN IF p < 90 THEN p ELSE 90

(***************************************************************************)
(* Initial state: empty store, idle handlers                               *)
(***************************************************************************)
IdleReq == [pc |-> "idle", user |-> "u1", key |-> NoKey, jobId |-> NoJob,
            prior |-> {}, quiet |-> FALSE]

\* nothing has been answered yet
NoReply == [route |-> "none", code |-> 0, isNew |-> FALSE, respId |-> "",
            body |-> NoBody, user |-> "u1", key |-> NoKey,
            prior |-> {}, quiet |-> FALSE, rejectedBefore |-> 0]

IdleWorker == [pc |-> "idle", i |-> 0, n |-> 0]

NoCounter == [exists |-> FALSE, val |-> 0, ttl |-> FALSE]

\* no mutator has been called directly
NoCall == [op |-> "none", pc |-> "idle", job |-> 1, progress |-> 0,
           url |-> "", error |-> "", canRetry |-> FALSE, pre |-> <<>>]

\* nobody has subscribed
NoSub == [pc |-> "idle", code |-> 0, job |-> 1, snap |-> NoBody,
          isActive |-> FALSE, subscribed |-> FALSE, inbox |-> <<>>,
          stream |-> <<>>, since |-> <<>>, beats |-> 0]

\* the worker process runs: no signal received, nothing closed, no exit code
NoExit == -1

Running == [isShuttingDown |-> FALSE, pc |-> "running", closed |-> <<>>,
            code |-> NoExit, timer |-> FALSE, events |-> <<>>, runs |-> 0]

\* The store is empty and every handler idle; the environment is e.
InitWith(e) ==
    /\ env = e
    /\ jobs = [j \in Jobs |-> EmptyHash]
    /\ jobTTL = [j \in Jobs |-> FALSE]
    /\ idem = [k \in Keys |-> NoJob]
    /\ active = [u \in Users |-> NoCounter]
    /\ processing = [j \in Jobs |-> NoScore]
    /\ now = 0
    /\ call = NoCall
    /\ queue = [j \in Jobs |-> [state |-> "none", attemptsMade |-> 0,
                                user |-> "u1", key |-> NoKey]]
    /\ worker = [j \in Jobs |-> IdleWorker]
    /\ tasks = {}
    /\ req = [r \in Reqs |-> IdleReq]
    /\ reply = NoReply
    /\ nextId = 1
    /\ started = 0
    /\ origin = [j \in Jobs |-> [key |-> NoKey, answered |-> FALSE]]
    /\ sub = NoSub
    /\ proc = Running

(***************************************************************************)
(* POST /v1/download/async (asyncDownloadRoute handler)                    *)
(***************************************************************************)
InFlight(r) == req[r].pc # "idle"

\* the job ids that have been returned with isNew=true for key k
issued(k) == {j \in Jobs : origin[j].key = k /\ origin[j].answered}

\* The handler returns c.json(...): the request is over.  rejectedBefore
\* counts the 429 answers sent before this one.
Respond(r, code, isNew, respId) ==
    /\ req' = [req EXCEPT ![r] = IdleReq]
    /\ reply' = [route |-> "async", code |-> code, isNew |-> isNew,
                 respId |-> respId, body |-> NoBody,
                 user |-> req[r].user, key |-> req[r].key,
                 prior |-> req[r].prior, quiet |-> req[r].quiet,
                 rejectedBefore |-> reply.rejectedBefore +
                                    (IF reply.code = 429 THEN 1 ELSE 0)]

\* A request arrives with its x-user-id and optional x-idempotency-key.
\* prior and quiet record what had been answered for the key before.
StartRequest(r, u, k) ==
    /\ ~InFlight(r)
    /\ \A o \in Reqs : o < r => InFlight(o)
    /\ started' = started + 1
    /\ req' = [req EXCEPT ![r] =
                 [IdleReq EXCEPT !.pc = IF k # NoKey THEN "idem" ELSE "rate",
                                 !.user = u, !.key = k,
                                 !.prior = IF k # NoKey THEN issued(k) ELSE {},
                                 !.quiet = \A o \in Reqs \ {r} :
                                              InFlight(o) => req[o].key # k]]
    /\ UNCHANGED <<jobs, jobTTL, idem, active, processing, queue, worker,
                   tasks, reply, nextId, origin, env, now, call, sub, proc>>

\* checkIdempotencyKey: redis.get(idempotency:<key>)
checkIdempotencyKey(k) == idem[k]

CheckIdempotency(r) ==
    /\ req[r].pc = "idem"
    /\ LET existingJobId == checkIdempotencyKey(req[r].key) IN
         req' = [req EXCEPT ![r].pc = IF existingJobId # NoJob
                                      THEN "idemJob" ELSE "rate",
                            ![r].jobId = existingJobId]
    /\ UNCHANGED <<jobs, jobTTL, idem, active, processing, queue, worker,
                   tasks, reply, nextId, origin, started, env, now, call, sub,
                   proc>>

\* a replay that is subject to the rate limit
GetExistingJobAfterLimit(r) ==
    /\ req[r].pc = "idemJob"
    /\ LET existingJob == getJob(jobs[req[r].jobId])
           count == IF active[req[r].user].exists
                    THEN active[req[r].user].val ELSE 0
       IN
         IF count >= env.MAX_CONCURRENT_DOWNLOADS_PER_USER
         THEN Respond(r, 429, FALSE, "")
         ELSE IF existingJob.exists
              THEN Respond(r, 200, FALSE, existingJob.id)
              ELSE /\ req' = [req EXCEPT ![r].pc = "rate", ![r].jobId = NoJob]
                   /\ UNCHANGED reply
    /\ UNCHANGED <<jobs, jobTTL, idem, active, processing, queue, worker,
                   tasks, nextId, origin, started, env, now, call, sub, proc>>

\* getJob(existingJobId): answer 200 isNew=false when the record exists,
\* fall through to the rate limit when it does not
GetExistingJob(r) ==
    /\ req[r].pc = "idemJob"
    /\ LET existingJob == getJob(jobs[req[r].jobId]) IN
         IF existingJob.exists
         THEN Respond(r, 200, FALSE, existingJob.id)
         ELSE /\ req' = [req EXCEPT ![r].pc = "rate", ![r].jobId = NoJob]
              /\ UNCHANGED reply
    /\ UNCHANGED <<jobs, jobTTL, idem, active, processing, queue, worker,
                   tasks, nextId, origin, started, env, now, call, sub, proc>>

\* checkUserRateLimit: parseInt(get(key) ?? "0") < MAX
activeJobsOf(u) == IF active[u].exists THEN active[u].val ELSE 0

checkUserRateLimit(u) ==
    activeJobsOf(u) < env.MAX_CONCURRENT_DOWNLOADS_PER_USER

\* a rate limit that counts the request before it checks (INCR, then check)
CheckRateLimitCounting(r) ==
    /\ req[r].pc = "rate"
    /\ UNCHANGED started
    /\ active' = [active EXCEPT ![req[r].user] =
                     [exists |-> TRUE, val |-> activeJobsOf(req[r].user) + 1,
                      ttl |-> active[req[r].user].exists
                              /\ active[req[r].user].ttl]]
    /\ IF activeJobsOf(req[r].user) + 1
            > env.MAX_CONCURRENT_DOWNLOADS_PER_USER
       THEN /\ Respond(r, 429, FALSE, "")
            /\ UNCHANGED <<nextId, origin>>
       ELSE /\ nextId <= MaxJobs
            /\ req' = [req EXCEPT ![r].pc = "create", ![r].jobId = nextId]
            /\ UNCHANGED reply
            /\ nextId' = nextId + 1
            /\ origin' = [origin EXCEPT ![nextId].key = req[r].key]
    /\ UNCHANGED <<jobs, jobTTL, idem, processing, queue, worker, tasks, env,
                   now, call, sub, proc>>

\* 429 when not allowed, else a fresh job id is drawn
CheckRateLimit(r) ==
    /\ req[r].pc = "rate"
    /\ UNCHANGED started
    /\ IF ~checkUserRateLimit(req[r].user)
       THEN /\ Respond(r, 429, FALSE, "")
            /\ UNCHANGED <<nextId, origin>>
       ELSE /\ nextId <= MaxJobs
            /\ req' = [req EXCEPT ![r].pc = "create", ![r].jobId = nextId]
            /\ UNCHANGED reply
            /\ nextId' = nextId + 1
            /\ origin' = [origin EXCEPT ![nextId].key = req[r].key]
    /\ UNCHANGED <<jobs, jobTTL, idem, active, processing, queue, worker,
                   tasks, env, now, call, sub, proc>>

\* createJob: redis.hset(job:<id>, ...)
CreateJobHset(r) ==
    /\ req[r].pc = "create"
    /\ jobs' = [jobs EXCEPT ![req[r].jobId] =
                   HSet(@, createJobHash(req[r].jobId, req[r].user))]
    /\ req' = [req EXCEPT ![r].pc = "expire"]
    /\ UNCHANGED <<jobTTL, idem, active, processing, queue, worker, tasks,
                   nextId, origin, started, env, reply, now, call, sub, proc>>

\* createJob: redis.expire(job:<id>, JOB_TTL_SECONDS)
CreateJobExpire(r) ==
    /\ req[r].pc = "expire"
    /\ jobTTL' = [jobTTL EXCEPT ![req[r].jobId] = Exists(jobs[req[r].jobId])]
    /\ req' = [req EXCEPT ![r].pc = IF req[r].key # NoKey
                                    THEN "setIdem" ELSE "incr"]
    /\ UNCHANGED <<jobs, idem, active, processing, queue, worker, tasks,
                   nextId, origin, started, env, reply, now, call, sub, proc>>

\* an idempotency entry that is never written
setIdempotencyKeyDropped(k, jobId) == idem

\* setIdempotencyKey: redis.set(idempotency:<key>, jobId, "EX", ttl)
setIdempotencyKey(k, jobId) == [idem EXCEPT ![k] = jobId]

SetIdempotency(r) ==
    /\ req[r].pc = "setIdem"
    /\ idem' = setIdempotencyKey(req[r].key, req[r].jobId)
    /\ req' = [req EXCEPT ![r].pc = "incr"]
    /\ UNCHANGED <<jobs, jobTTL, active, processing, queue, worker, tasks,
                   nextId, origin, started, env, reply, now, call, sub, proc>>

\* incrementUserActiveJobs: redis.incr(user:<id>:active)
IncrActive(r) ==
    /\ req[r].pc = "incr"
    /\ active' = [active EXCEPT ![req[r].user] =
                     [exists |-> TRUE, val |-> activeJobsOf(req[r].user) + 1,
                      ttl |-> active[req[r].user].exists
                              /\ active[req[r].user].ttl]]
    /\ req' = [req EXCEPT ![r].pc = "incrExpire"]
    /\ UNCHANGED <<jobs, jobTTL, idem, processing, queue, worker, tasks,
                   nextId, origin, started, env, reply, now, call, sub, proc>>

\* incrementUserActiveJobs: redis.expire(user:<id>:active, JOB_TTL_SECONDS)
IncrExpire(r) ==
    /\ req[r].pc = "incrExpire"
    /\ active' = [active EXCEPT ![req[r].user].ttl = active[req[r].user].exists]
    /\ req' = [req EXCEPT ![r].pc = "enqueue"]
    /\ UNCHANGED <<jobs, jobTTL, idem, processing, queue, worker, tasks,
                   nextId, origin, started, env, reply, now, call, sub, proc>>

\* addDownloadJob: downloadQueue.add("download", data, {jobId}), then 202
Enqueue(r) ==
    /\ req[r].pc = "enqueue"
    /\ queue' = [queue EXCEPT ![req[r].jobId] =
                    IF @.state = "none"
                    THEN [state |-> "waiting", attemptsMade |-> 0,
                          user |-> req[r].user, key |-> req[r].key]
                    ELSE @]
    /\ Respond(r, 202, TRUE, String(req[r].jobId))
    /\ origin' = [origin EXCEPT ![req[r].jobId].answered = TRUE]
    /\ UNCHANGED <<jobs, jobTTL, idem, active, processing, worker, tasks,
                   nextId, started, env, now, call, sub, proc>>

\* the steps of a request that carries no x-idempotency-key
RequestStepNoKey(r) ==
    \/ CheckRateLimit(r) \/ CreateJobHset(r) \/ CreateJobExpire(r)
    \/ IncrActive(r) \/ IncrExpire(r) \/ Enqueue(r)

RequestStep(r) ==
    \/ CheckIdempotency(r) \/ GetExistingJob(r) \/ SetIdempotency(r)
    \/ RequestStepNoKey(r)

(***************************************************************************)
(* Job service mutators, one definition per redis call                     *)
(***************************************************************************)
\* markJobProcessing: updateJobStatus(jobId, "processing", {progress: 0})
markJobProcessingHash(h) == updateJobStatus(h, "processing", [progress |-> 0])

\* markJobCompleted: updateJobStatus(jobId, "completed", {progress: 100, downloadUrl})
markJobCompletedHash(h, downloadUrl) ==
    updateJobStatus(h, "completed",
                    [progress |-> 100, downloadUrl |-> downloadUrl])

\* markJobFailed: updateJobStatus(jobId, "failed", {error, canRetry, attempts})
markJobFailedHash(h, error, canRetry, attempts) ==
    updateJobStatus(h, "failed",
                    [error |-> error, canRetry |-> canRetry,
                     attempts |-> attempts])

(***************************************************************************)
(* redis.publish(job:updates:<id>, JSON.stringify(payload)).  A message is *)
(* the payload together with the mutator that published it; the channel    *)
(* keeps nothing: the message reaches the connection that is subscribed at *)
(* that moment.  since records, for a subscriber whose handler has read    *)
(* the job and whose stream is not closed, what was published after that   *)
(* read.  The hset and the publish of a mutator are taken as one step.     *)
(***************************************************************************)
\* updateJobStatus: updatePayload = { status, ...additionalData }
statusMessage(status, add) ==
    [f \in {"status"} \cup DOMAIN add |->
        IF f = "status" THEN status ELSE add[f]]

\* updateJobProgress: { progress, status: "processing" }
progressMessage(progress) == [progress |-> progress, status |-> "processing"]

\* a channel that hands the newest message over first
publishNewestFirst(j, op, data) ==
    LET message == [op |-> op, data |-> data]
    IN  [sub EXCEPT
           !.inbox = IF sub.subscribed /\ sub.job = j
                     THEN <<message>> \o @ ELSE @,
           !.since = IF sub.job = j
                        /\ sub.pc \in {"initial", "subscribing", "open"}
                     THEN Append(@, message) ELSE @]

publish(j, op, data) ==
    LET message == [op |-> op, data |-> data]
    IN  [sub EXCEPT
           !.inbox = IF sub.subscribed /\ sub.job = j
                     THEN Append(@, message) ELSE @,
           !.since = IF sub.job = j
                        /\ sub.pc \in {"initial", "subscribing", "open"}
                     THEN Append(@, message) ELSE @]

(***************************************************************************)
(* The worker: processDownloadJob, one step per await                      *)
(***************************************************************************)
ActiveCount == Cardinality({j \in Jobs : queue[j].state = "active"})

\* BullMQ hands a waiting job to a free worker slot
WorkerTake(j) ==
    /\ queue[j].state = "waiting"
    /\ ActiveCount < env.WORKER_CONCURRENCY
    /\ queue' = [queue EXCEPT ![j].state = "active"]
    /\ worker' = [worker EXCEPT ![j] = [pc |-> "mp_hset", i |-> 0, n |-> 0]]
    /\ UNCHANGED <<jobs, jobTTL, idem, active, processing, tasks, req, nextId,
                   origin, started, env, reply, now, call, sub, proc>>

\* markJobProcessing: hset status=processing, progress=0 (and publish)
MarkProcessingHset(j) ==
    /\ worker[j].pc = "mp_hset"
    /\ jobs' = [jobs EXCEPT ![j] = markJobProcessingHash(@)]
    /\ worker' = [worker EXCEPT ![j].pc = "mp_zadd"]
    /\ UNCHANGED <<jobTTL, idem, active, processing, queue, tasks, req,
                   nextId, origin, started, env, reply, now, call, proc>>
    /\ sub' = publish(j, "markJobProcessing",
                       statusMessage("processing", [progress |-> 0]))

\* getRandomDelay and progressIntervals = max(1, floor(delay / 2000)):
\* 1 when the delay is disabled, any number from 1 on when it is enabled
progressIntervals ==
    IF env.DOWNLOAD_DELAY_ENABLED THEN 1..MaxIntervals ELSE {1}

\* markJobProcessing: zadd jobs:processing; then the number of progress
\* intervals is computed from the random delay
MarkProcessingZadd(j) ==
    /\ worker[j].pc = "mp_zadd"
    /\ processing' = [processing EXCEPT ![j] = now]
    /\ \E n \in progressIntervals :
         worker' = [worker EXCEPT ![j] = [pc |-> "upd", i |-> 1, n |-> n]]
    /\ UNCHANGED <<jobs, jobTTL, idem, active, queue, tasks, req, nextId,
                   origin, started, env, reply, now, call, sub, proc>>

\* one round of the progress loop: updateJobProgress(jobId, progress)
UpdateProgress(j) ==
    /\ worker[j].pc = "upd"
    /\ jobs' = [jobs EXCEPT ![j] =
                  updateJobProgress(@, intervalProgress(worker[j].i,
                                                        worker[j].n))]
    /\ worker' = [worker EXCEPT ![j].i = @ + 1,
                                ![j].pc = IF worker[j].i < worker[j].n
                                          THEN "upd" ELSE "s3"]
    /\ UNCHANGED <<jobTTL, idem, active, processing, queue, tasks, req,
                   nextId, origin, started, env, reply, now, call, proc>>
    /\ sub' = publish(j, "updateJobProgress",
                       progressMessage(intervalProgress(worker[j].i,
                                                        worker[j].n)))

\* a failed handler that releases the slot on every failure
failedHandlerTasksAlwaysRelease(j, attemptsMade, message) ==
    LET canRetry == env.JOB_MAX_ATTEMPTS - attemptsMade > 0
    IN  {[kind |-> "fail", job |-> j, user |-> queue[j].user, pc |-> "hset",
          error |-> message, canRetry |-> canRetry,
          attempts |-> attemptsMade, cur |-> 0],
         [kind |-> "decr", job |-> j, user |-> queue[j].user,
          pc |-> "decr", error |-> "", canRetry |-> FALSE,
          attempts |-> attemptsMade, cur |-> 0]}

\* worker.on("failed"): canRetry, the un-awaited markJobFailed and, on the
\* final failure, the un-awaited decrementUserActiveJobs
failedHandlerTasks(j, attemptsMade, message) ==
    LET maxAttempts == env.JOB_MAX_ATTEMPTS
        attemptsLeft == maxAttempts - attemptsMade
        canRetry == attemptsLeft > 0
    IN  {[kind |-> "fail", job |-> j, user |-> queue[j].user, pc |-> "hset",
          error |-> message, canRetry |-> canRetry,
          attempts |-> attemptsMade, cur |-> 0]}
        \cup
        (IF ~canRetry
         THEN {[kind |-> "decr", job |-> j, user |-> queue[j].user,
                pc |-> "decr", error |-> "", canRetry |-> FALSE,
                attempts |-> attemptsMade, cur |-> 0]}
         ELSE {})

\* a completed handler that does not release the slot
completedHandlerTasksNone(j) == {}

\* worker.on("completed"): the un-awaited decrementUserActiveJobs
completedHandlerTasks(j) ==
    {[kind |-> "decr", job |-> j, user |-> queue[j].user, pc |-> "decr",
      error |-> "", canRetry |-> FALSE, attempts |-> 0, cur |-> 0]}

\* BullMQ after the processor threw: the attempt is counted, the job is
\* retried while attempts remain (defaultJobOptions.attempts), else failed
queueAfterFailure(q) ==
    [q EXCEPT !.attemptsMade = @ + 1,
              !.state = IF q.attemptsMade + 1 < env.JOB_MAX_ATTEMPTS
                        THEN "waiting" ELSE "failed"]

\* checkS3Availability, then either the throw of "File not found" with the
\* failed event, or generatePresignedUrl
CheckS3(j) ==
    /\ worker[j].pc = "s3"
    /\ \E available \in BOOLEAN :
         IF available
         THEN /\ worker' = [worker EXCEPT ![j].pc = "mc_hset"]
              /\ UNCHANGED <<queue, tasks>>
         ELSE /\ worker' = [worker EXCEPT ![j] = IdleWorker]
              /\ queue' = [queue EXCEPT ![j] = queueAfterFailure(@)]
              /\ tasks' = tasks \cup
                    failedHandlerTasks(j, queue[j].attemptsMade + 1,
                                       NotFoundMsg)
    /\ UNCHANGED <<jobs, jobTTL, idem, active, processing, req, nextId,
                   origin, started, env, reply, now, call, sub, proc>>

\* a markJobCompleted whose publish needs a subscriber on the channel
MarkCompletedHsetNeedsSubscriber(j) ==
    /\ worker[j].pc = "mc_hset"
    /\ sub.subscribed /\ sub.job = j
    /\ jobs' = [jobs EXCEPT ![j] = markJobCompletedHash(@, Url)]
    /\ worker' = [worker EXCEPT ![j].pc = "mc_zrem"]
    /\ UNCHANGED <<jobTTL, idem, active, processing, queue, tasks, req,
                   nextId, origin, started, env, reply, now, call, proc>>
    /\ sub' = publish(j, "markJobCompleted",
                       statusMessage("completed",
                                     [progress |-> 100, downloadUrl |-> Url]))

\* markJobCompleted: hset status=completed, progress=100, downloadUrl
MarkCompletedHset(j) ==
    /\ worker[j].pc = "mc_hset"
    /\ jobs' = [jobs EXCEPT ![j] = markJobCompletedHash(@, Url)]
    /\ worker' = [worker EXCEPT ![j].pc = "mc_zrem"]
    /\ UNCHANGED <<jobTTL, idem, active, processing, queue, tasks, req,
                   nextId, origin, started, env, reply, now, call, proc>>
    /\ sub' = publish(j, "markJobCompleted",
                       statusMessage("completed",
                                     [progress |-> 100, downloadUrl |-> Url]))

\* markJobCompleted: zrem jobs:processing; the processor returns and the
\* completed event fires
MarkCompletedZrem(j) ==
    /\ worker[j].pc = "mc_zrem"
    /\ processing' = [processing EXCEPT ![j] = NoScore]
    /\ worker' = [worker EXCEPT ![j] = IdleWorker]
    /\ queue' = [queue EXCEPT ![j].state = "completed"]
    /\ tasks' = tasks \cup completedHandlerTasks(j)
    /\ UNCHANGED <<jobs, jobTTL, idem, active, req, nextId, origin, started,
                   env, reply, now, call, sub, proc>>

(***************************************************************************)
(* The un-awaited calls of the event handlers                              *)
(***************************************************************************)
\* markJobFailed: hset status=failed, error, canRetry, attempts (and publish)
FailTaskHset(j) ==
    \E t \in tasks :
    /\ t.job = j /\ t.kind = "fail" /\ t.pc = "hset"
    /\ jobs' = [jobs EXCEPT ![t.job] =
                  markJobFailedHash(@, t.error, t.canRetry, t.attempts)]
    /\ tasks' = (tasks \ {t}) \cup {[t EXCEPT !.pc = "zrem"]}
    /\ UNCHANGED <<jobTTL, idem, active, processing, queue, worker, req,
                   nextId, origin, started, env, reply, now, call, proc>>
    /\ sub' = publish(t.job, "markJobFailed",
                       statusMessage("failed",
                                     [error |-> t.error,
                                      canRetry |-> t.canRetry,
                                      attempts |-> t.attempts]))

\* markJobFailed: zrem jobs:processing
FailTaskZrem(j) ==
    \E t \in tasks :
    /\ t.job = j /\ t.kind = "fail" /\ t.pc = "zrem"
    /\ processing' = [processing EXCEPT ![t.job] = NoScore]
    /\ tasks' = tasks \ {t}
    /\ UNCHANGED <<jobs, jobTTL, idem, active, queue, worker, req, nextId,
                   origin, started, env, reply, now, call, sub, proc>>

\* decrementUserActiveJobs: current = redis.decr(key).  The failed handler
\* issues the hset of markJobFailed and this decr in one tick on one
\* connection, so the hset reaches the store first.
DecrTaskDecr(j) ==
    \E t \in tasks :
    /\ t.job = j /\ t.kind = "decr" /\ t.pc = "decr"
    /\ ~\E f \in tasks : /\ f.kind = "fail" /\ f.pc = "hset"
                         /\ f.job = t.job /\ f.attempts = t.attempts
    /\ LET current == activeJobsOf(t.user) - 1 IN
        /\ active' = [active EXCEPT ![t.user] =
                         [exists |-> TRUE, val |-> current,
                          ttl |-> active[t.user].exists /\ active[t.user].ttl]]
        /\ tasks' = (tasks \ {t}) \cup
                    (IF current <= 0
                     THEN {[t EXCEPT !.pc = "del", !.cur = current]}
                     ELSE {})
    /\ UNCHANGED <<jobs, jobTTL, idem, processing, queue, worker, req, nextId,
                   origin, started, env, reply, now, call, sub, proc>>

\* decrementUserActiveJobs: redis.del(key) when current <= 0
DecrTaskDel(j) ==
    \E t \in tasks :
    /\ t.job = j /\ t.kind = "decr" /\ t.pc = "del"
    /\ active' = [active EXCEPT ![t.user] = NoCounter]
    /\ tasks' = tasks \ {t}
    /\ UNCHANGED <<jobs, jobTTL, idem, processing, queue, worker, req, nextId,
                   origin, started, env, reply, now, call, sub, proc>>

WorkerStep(j) ==
    \/ WorkerTake(j) \/ MarkProcessingHset(j) \/ MarkProcessingZadd(j)
    \/ UpdateProgress(j) \/ CheckS3(j) \/ MarkCompletedHset(j)
    \/ MarkCompletedZrem(j)

TaskStep(j) ==
    \/ FailTaskHset(j) \/ FailTaskZrem(j) \/ DecrTaskDecr(j) \/ DecrTaskDel(j)

(***************************************************************************)
(* The job service called directly: a caller invokes the exported mutators *)
(* one call at a time, in any order and with any arguments, for a job that *)
(* has been created and enqueued, while no creation request is being       *)
(* handled.  pre is the store at the call.                                 *)
(***************************************************************************)
ProgressInputs == {30, 50, 100}  \* arguments of updateJobProgress

CallerFree ==
    /\ call.pc \in {"idle", "returned"}
    /\ \A r \in Reqs : ~InFlight(r)

\* a call of mutator op for the id j, whether or not a record exists for it
InvokeFor(op, j, progress, url, error, canRetry) ==
    /\ CallerFree
    /\ call' = [op |-> op, pc |-> "hset", job |-> j, progress |-> progress,
                url |-> url, error |-> error, canRetry |-> canRetry,
                pre |-> store]
    /\ UNCHANGED <<jobs, jobTTL, idem, active, processing, queue, worker,
                   tasks, req, reply, nextId, started, env, origin, now, sub,
                   proc>>

Invoke(op, j, progress, url, canRetry) ==
    /\ queue[j].state # "none"
    /\ InvokeFor(op, j, progress, url, NotFoundMsg, canRetry)

InvokeMarkProcessing(j) == Invoke("markJobProcessing", j, 0, "", FALSE)

InvokeUpdateProgress(j, progress) ==
    Invoke("updateJobProgress", j, progress, "", FALSE)

InvokeMarkCompleted(j, url) == Invoke("markJobCompleted", j, 0, url, FALSE)

InvokeMarkFailed(j, canRetry) == Invoke("markJobFailed", j, 0, "", canRetry)

\* the hset of the mutator (updateJobStatus or updateJobProgress);
\* updateJobProgress returns after it
ServiceHset ==
    /\ call.pc = "hset"
    /\ jobs' = [jobs EXCEPT ![call.job] =
                  CASE call.op = "markJobProcessing" ->
                          markJobProcessingHash(@)
                    [] call.op = "updateJobProgress" ->
                          updateJobProgress(@, call.progress)
                    [] call.op = "markJobCompleted" ->
                          markJobCompletedHash(@, call.url)
                    [] call.op = "markJobFailed" ->
                          markJobFailedHash(@, call.error, call.canRetry, 1)]
    /\ call' = [call EXCEPT !.pc = IF call.op = "updateJobProgress"
                                   THEN "returned" ELSE "zset"]
    /\ UNCHANGED <<jobTTL, idem, active, processing, queue, worker, tasks,
                   req, reply, nextId, started, env, origin, now, proc>>
    /\ sub' = publish(call.job, call.op,
                       CASE call.op = "markJobProcessing" ->
                               statusMessage("processing", [progress |-> 0])
                         [] call.op = "updateJobProgress" ->
                               progressMessage(call.progress)
                         [] call.op = "markJobCompleted" ->
                               statusMessage("completed",
                                             [progress |-> 100,
                                              downloadUrl |-> call.url])
                         [] call.op = "markJobFailed" ->
                               statusMessage("failed",
                                             [error |-> call.error,
                                              canRetry |-> call.canRetry,
                                              attempts |-> 1]))

\* the zadd of markJobProcessing, the zrem of markJobCompleted and
\* markJobFailed; the mutator returns
ServiceZset ==
    /\ call.pc = "zset"
    /\ processing' = [processing EXCEPT ![call.job] =
                         IF call.op = "markJobProcessing"
                         THEN now ELSE NoScore]
    /\ call' = [call EXCEPT !.pc = "returned"]
    /\ UNCHANGED <<jobs, jobTTL, idem, active, queue, worker, tasks, req,
                   reply, nextId, started, env, origin, now, sub, proc>>

\* time passes
Tick ==
    /\ now < MaxTime
    /\ now' = now + 1
    /\ UNCHANGED <<jobs, jobTTL, idem, active, processing, queue, worker,
                   tasks, req, reply, nextId, started, env, origin, call, sub,
                   proc>>

\* arguments of markJobCompleted and markJobFailed: any string
UrlInputs == {Url, ""}

ErrorInputs == {NotFoundMsg, ""}

(***************************************************************************)
(* GET /v1/download/status/:jobId (jobStatusRoute handler)                 *)
(***************************************************************************)
\* getJob, then 404 or 200 with the fields of the record
StatusRequest(j) ==
    /\ LET job == Job(j) IN
         reply' = [NoReply EXCEPT
                     !.route = "status",
                     !.code = IF ~job.exists THEN 404 ELSE 200,
                     !.respId = IF job.exists THEN job.id ELSE "",
                     !.body = IF job.exists THEN job ELSE NoBody,
                     !.rejectedBefore = reply.rejectedBefore +
                                        (IF reply.code = 429 THEN 1 ELSE 0)]
    /\ UNCHANGED <<jobs, jobTTL, idem, active, processing, queue, worker,
                   tasks, req, nextId, started, env, origin, now, call, sub,
                   proc>>

(***************************************************************************)
(* GET /v1/download/subscribe/:jobId (sseSubscribeRoute handler), one step *)
(* per await and per callback.  One client subscribes, once.  An event of  *)
(* the stream is [event, data, from]; from names what it was written for   *)
(* (the mutator that published the update, "snapshot" or "heartbeat").     *)
(***************************************************************************)
\* the event type chosen by the message handler
eventType(update) ==
    CASE update.status = "completed" -> "complete"
      [] update.status = "failed" -> "error"
      [] update.status \in {"queued", "processing"} -> "status"
      [] OTHER -> "progress"

\* a subscribe handler that does not verify that the job exists
SubscribeGetJobUnverified(j) ==
    /\ sub.pc = "idle"
    /\ LET job == Job(j) IN
         sub' = [sub EXCEPT
                   !.job = j,
                   !.snap = job,
                   !.code = 200,
                   !.pc = IF job.status \in {"completed", "failed"}
                          THEN "final" ELSE "initial"]
    /\ UNCHANGED <<jobs, jobTTL, idem, active, processing, queue, worker,
                   tasks, req, reply, nextId, started, env, origin, now, call,
                   proc>>

\* const job = await getJob(jobId): 404, the final state, or the live stream
SubscribeGetJob(j) ==
    /\ sub.pc = "idle"
    /\ LET job == Job(j) IN
         sub' = [sub EXCEPT
                   !.job = j,
                   !.snap = job,
                   !.code = IF ~job.exists THEN 404 ELSE 200,
                   !.pc = CASE ~job.exists -> "notfound"
                            [] job.status \in {"completed", "failed"}
                                  -> "final"
                            [] OTHER -> "initial"]
    /\ UNCHANGED <<jobs, jobTTL, idem, active, processing, queue, worker,
                   tasks, req, reply, nextId, started, env, origin, now, call,
                   proc>>

\* the job is already completed or failed: one event, then the stream ends
WriteFinal ==
    /\ sub.pc = "final"
    /\ LET job == sub.snap
           data == IF job.status = "completed"
                   THEN [status |-> job.status, progress |-> 100,
                         downloadUrl |-> job.downloadUrl]
                   ELSE [status |-> job.status, error |-> job.error,
                         canRetry |-> job.canRetry]
       IN sub' = [sub EXCEPT
                    !.stream = Append(@,
                        [event |-> IF job.status = "completed"
                                   THEN "complete" ELSE "error",
                         data |-> data, from |-> "snapshot"]),
                    !.pc = "closed"]
    /\ UNCHANGED <<jobs, jobTTL, idem, active, processing, queue, worker,
                   tasks, req, reply, nextId, started, env, origin, now, call,
                   proc>>

\* let isActive = true; await stream.writeSSE({ event: "status", ... })
WriteInitial ==
    /\ sub.pc = "initial"
    /\ sub' = [sub EXCEPT
                 !.isActive = TRUE,
                 !.stream = Append(@,
                     [event |-> "status",
                      data |-> [status |-> sub.snap.status,
                                progress |-> sub.snap.progress],
                      from |-> "snapshot"]),
                 !.pc = "subscribing"]
    /\ UNCHANGED <<jobs, jobTTL, idem, active, processing, queue, worker,
                   tasks, req, reply, nextId, started, env, origin, now, call,
                   proc>>

\* await subscriber.subscribe(channel); the handlers are registered
Subscribe ==
    /\ sub.pc = "subscribing"
    /\ sub' = [sub EXCEPT !.subscribed = TRUE, !.pc = "open"]
    /\ UNCHANGED <<jobs, jobTTL, idem, active, processing, queue, worker,
                   tasks, req, reply, nextId, started, env, origin, now, call,
                   proc>>

\* a message handler that keeps the stream open after a terminal update
onMessageKeepsOpen(s) ==
    LET message == Head(s.inbox)
        update == message.data
    IN  [s EXCEPT !.inbox = Tail(@),
                  !.stream = Append(@, [event |-> eventType(update),
                                        data |-> update,
                                        from |-> message.op])]

\* subscriber.on("message"): nothing when !isActive; else the event is
\* written, and on completed or failed isActive = false and the
\* subscription is given up
onMessage(s) ==
    LET message == Head(s.inbox)
        update == message.data
        terminal == update.status \in {"completed", "failed"}
    IN  IF ~s.isActive
        THEN [s EXCEPT !.inbox = Tail(@)]
        ELSE [s EXCEPT
                !.inbox = Tail(@),
                !.stream = Append(@, [event |-> eventType(update),
                                      data |-> update,
                                      from |-> message.op]),
                !.isActive = ~terminal,
                !.pc = IF terminal THEN "unsubscribing" ELSE @]

\* the subscribed connection hands over its next message
OnMessage ==
    /\ sub.inbox # <<>>
    /\ sub' = onMessage(sub)
    /\ UNCHANGED <<jobs, jobTTL, idem, active, processing, queue, worker,
                   tasks, req, reply, nextId, started, env, origin, now, call,
                   proc>>

\* subscriber.unsubscribe(channel) and quit() reach redis
Unsubscribe ==
    /\ sub.pc = "unsubscribing"
    /\ sub' = [sub EXCEPT !.subscribed = FALSE, !.pc = "closed"]
    /\ UNCHANGED <<jobs, jobTTL, idem, active, processing, queue, worker,
                   tasks, req, reply, nextId, started, env, origin, now, call,
                   proc>>

\* a disconnect that also cancels the work of the job
OnAbortCancelsJob ==
    /\ sub.pc = "open"
    /\ sub' = [sub EXCEPT !.isActive = FALSE, !.pc = "unsubscribing"]
    /\ queue' = [queue EXCEPT ![sub.job].state = "failed"]
    /\ worker' = [worker EXCEPT ![sub.job] = IdleWorker]
    /\ UNCHANGED <<jobs, jobTTL, idem, active, processing, tasks, req, reply,
                   nextId, started, env, origin, now, call, proc>>

\* stream.onAbort: the client went away
OnAbort ==
    /\ sub.pc = "open"
    /\ sub' = [sub EXCEPT !.isActive = FALSE, !.pc = "unsubscribing"]
    /\ UNCHANGED <<jobs, jobTTL, idem, active, processing, queue, worker,
                   tasks, req, reply, nextId, started, env, origin, now, call,
                   proc>>

\* setInterval(..., 15000): a heartbeat while isActive
Heartbeat ==
    /\ sub.subscribed
    /\ sub.isActive
    /\ sub.beats < MaxHeartbeats
    /\ sub' = [sub EXCEPT
                 !.beats = @ + 1,
                 !.stream = Append(@, [event |-> "heartbeat",
                                       data |-> [timestamp |-> now],
                                       from |-> "heartbeat"])]
    /\ UNCHANGED <<jobs, jobTTL, idem, active, processing, queue, worker,
                   tasks, req, reply, nextId, started, env, origin, now, call,
                   proc>>

SubscriberStep ==
    \/ \E j \in Jobs : SubscribeGetJob(j)
    \/ WriteFinal \/ WriteInitial \/ Subscribe \/ OnMessage \/ Unsubscribe
    \/ OnAbort \/ Heartbeat

(***************************************************************************)
(* The watchdog.  getStuckJobs has no caller in the service or the worker; *)
(* the only sweep of the repository is the cron job of the architecture    *)
(* document: scan jobs:processing, and for every id found add an entry to  *)
(* the queue and hset status=queued.  One step per await.  call holds the  *)
(* sweep: the cutoff and result of the scan, the ids still to handle, the  *)
(* ids for which an entry was added to the queue, and the store at the     *)
(* scan.                                                                   *)
(***************************************************************************)
Thresholds == 0..MaxTime  \* stuckThresholdMs, in ticks

\* a scan from the threshold upwards: the ids whose processing began at or
\* after it
getStuckJobsNewer(stuckThresholdMs) ==
    LET threshold == now - stuckThresholdMs
    IN  {j \in Jobs : /\ processing[j] # NoScore
                      /\ threshold <= processing[j]}

\* zrangebyscore(jobs:processing, 0, threshold) with
\* threshold = Date.now() - stuckThresholdMs
getStuckJobs(stuckThresholdMs) ==
    LET threshold == now - stuckThresholdMs
    IN  {j \in Jobs : /\ processing[j] # NoScore
                      /\ 0 <= processing[j]
                      /\ processing[j] <= threshold}

\* the id the loop handles next: ascending score, then ascending id
nextStuck(ids) ==
    CHOOSE j \in ids :
        \A o \in ids : \/ processing[j] < processing[o]
                       \/ processing[j] = processing[o] /\ j <= o

\* the cron job fires: the scan
SweepScan(stuckThresholdMs) ==
    /\ call.pc \in {"idle", "returned"}
    /\ LET stuckJobs == getStuckJobs(stuckThresholdMs) IN
         call' = [op |-> "sweep",
                  pc |-> IF stuckJobs = {} THEN "returned" ELSE "add",
                  job |-> IF stuckJobs = {} THEN 1 ELSE nextStuck(stuckJobs),
                  cutoff |-> now - stuckThresholdMs,
                  found |-> stuckJobs, stuck |-> stuckJobs, added |-> {},
                  pre |-> store]
    /\ UNCHANGED <<jobs, jobTTL, idem, active, processing, queue, worker,
                   tasks, req, reply, nextId, started, env, origin, now, sub,
                   proc>>

\* downloadQueue.add("download", { jobId }): a further queue entry for the
\* same job id
SweepAdd ==
    /\ call.op = "sweep" /\ call.pc = "add"
    /\ call' = [call EXCEPT !.added = @ \cup {call.job}, !.pc = "hset"]
    /\ UNCHANGED <<jobs, jobTTL, idem, active, processing, queue, worker,
                   tasks, req, reply, nextId, started, env, origin, now, sub,
                   proc>>

\* redis.hset(job:{jobId}, "status", "queued"); then the next id
SweepHset ==
    /\ call.op = "sweep" /\ call.pc = "hset"
    /\ jobs' = [jobs EXCEPT ![call.job] = HSet(@, [status |-> "queued"])]
    /\ LET rest == call.stuck \ {call.job} IN
         call' = [call EXCEPT !.stuck = rest,
                              !.pc = IF rest = {} THEN "returned" ELSE "add",
                              !.job = IF rest = {} THEN call.job
                                      ELSE nextStuck(rest)]
    /\ UNCHANGED <<jobTTL, idem, active, processing, queue, worker, tasks,
                   req, reply, nextId, started, env, origin, now, sub, proc>>

\* getStuckJobs called on its own: the result is kept with the cutoff
CallGetStuckJobs(stuckThresholdMs) ==
    /\ call.pc \in {"idle", "returned"}
    /\ call' = [op |-> "getStuckJobs", pc |-> "returned", job |-> 1,
                cutoff |-> now - stuckThresholdMs,
                found |-> getStuckJobs(stuckThresholdMs), pre |-> <<>>]
    /\ UNCHANGED <<jobs, jobTTL, idem, active, processing, queue, worker,
                   tasks, req, reply, nextId, started, env, origin, now, sub,
                   proc>>

(***************************************************************************)
(* Graceful shutdown of the worker process (worker.ts).  proc holds        *)
(* isShuttingDown, the position in the chain worker.close() ->             *)
(* closeRedis() -> closeS3(), the resources closed so far, whether         *)
(* forceExitTimeout is armed, the exit code, the events received and how   *)
(* often the body of shutdown ran.  A close resolves or rejects; closeS3   *)
(* returns or throws.                                                      *)
(***************************************************************************)
Signals == {"SIGTERM", "SIGINT"}

ErrorEvents == {"uncaughtException", "unhandledRejection"}

\* process.exit(code)
exit(p, code) == [p EXCEPT !.pc = "exited", !.code = code]

\* a shutdown without the isShuttingDown guard
shutdownUnguarded(p, signal) ==
    [p EXCEPT !.isShuttingDown = TRUE, !.timer = TRUE,
              !.pc = "closingWorker", !.runs = @ + 1]

\* shutdown(signal): return when already shutting down; else set the flag,
\* arm forceExitTimeout and call worker.close()
shutdown(p, signal) ==
    IF p.isShuttingDown
    THEN p
    ELSE [p EXCEPT !.isShuttingDown = TRUE, !.timer = TRUE,
                   !.pc = "closingWorker", !.runs = @ + 1]

Alive == proc.pc # "exited" /\ Len(proc.events) < MaxEvents

\* process.on("SIGTERM") and process.on("SIGINT")
OnSignal(signal) ==
    /\ Alive
    /\ proc' = [shutdown(proc, signal) EXCEPT !.events = Append(@, signal)]
    /\ UNCHANGED <<jobs, jobTTL, idem, active, processing, queue, worker,
                   tasks, req, reply, nextId, started, env, origin, now,
                   call, sub>>

\* process.on("uncaughtException") and process.on("unhandledRejection")
OnError(kind) ==
    /\ Alive
    /\ proc' = [(IF ~proc.isShuttingDown
                 THEN shutdown(proc, kind)
                 ELSE exit(proc, 1)) EXCEPT !.events = Append(@, kind)]
    /\ UNCHANGED <<jobs, jobTTL, idem, active, processing, queue, worker,
                   tasks, req, reply, nextId, started, env, origin, now,
                   call, sub>>

\* worker.close() settles: then closeRedis() is called, or the catch
\* clears the timeout and exits 1
WorkerClosed ==
    /\ proc.pc = "closingWorker"
    /\ \E resolved \in BOOLEAN :
         proc' = IF resolved
                 THEN [proc EXCEPT !.pc = "closingRedis",
                                   !.closed = Append(@, "worker")]
                 ELSE exit([proc EXCEPT !.timer = FALSE], 1)
    /\ UNCHANGED <<jobs, jobTTL, idem, active, processing, queue, worker,
                   tasks, req, reply, nextId, started, env, origin, now,
                   call, sub>>

\* closeRedis() settles: then closeS3(), clearTimeout and exit 0; when
\* closeRedis rejected or closeS3 threw, the catch clears the timeout and
\* exits 1
RedisClosed ==
    /\ proc.pc = "closingRedis"
    /\ \E resolved \in BOOLEAN, returned \in BOOLEAN :
         proc' =
            CASE resolved /\ returned ->
                    exit([proc EXCEPT !.closed = @ \o <<"redis", "s3">>,
                                      !.timer = FALSE], 0)
              [] resolved /\ ~returned ->
                    exit([proc EXCEPT !.closed = Append(@, "redis"),
                                      !.timer = FALSE], 1)
              [] OTHER -> exit([proc EXCEPT !.timer = FALSE], 1)
    /\ UNCHANGED <<jobs, jobTTL, idem, active, processing, queue, worker,
                   tasks, req, reply, nextId, started, env, origin, now,
                   call, sub>>

\* forceExitTimeout fires after SHUTDOWN_TIMEOUT_MS
ForceExit ==
    /\ proc.pc # "exited"
    /\ proc.timer
    /\ proc' = exit(proc, 1)
    /\ UNCHANGED <<jobs, jobTTL, idem, active, processing, queue, worker,
                   tasks, req, reply, nextId, started, env, origin, now,
                   call, sub>>

(***************************************************************************)
(* Failure of a store or queue call inside the creation handler: the       *)
(* awaited call rejects, nothing catches it in the handler, the request is *)
(* answered 500 and the calls after it are never made.                     *)
(***************************************************************************)
RequestFails(r) ==
    /\ req[r].pc \in {"create", "expire", "setIdem", "incr", "incrExpire",
                      "enqueue"}
    /\ Respond(r, 500, FALSE, "")
    /\ UNCHANGED <<jobs, jobTTL, idem, active, processing, queue, worker,
                   tasks, nextId, origin, started, env, now, call, sub, proc>>

(***************************************************************************)
(* Expiry (JOB_TTL_SECONDS).  The job hash was given its expiry before the *)
(* idempotency entry was written, so the hash goes first.  A record is     *)
(* taken to outlive the processing of its job.                             *)
(***************************************************************************)
ExpireJobRecord(j) ==
    /\ jobTTL[j]
    /\ queue[j].state \in {"completed", "failed"}
    /\ ~\E t \in tasks : t.job = j
    /\ jobs' = [jobs EXCEPT ![j] = EmptyHash]
    /\ jobTTL' = [jobTTL EXCEPT ![j] = FALSE]
    /\ UNCHANGED <<idem, active, processing, queue, worker, tasks, req,
                   nextId, origin, started, env, reply, now, call, sub, proc>>

ExpireIdempotency(k) ==
    /\ idem[k] # NoJob
    /\ ~Exists(jobs[idem[k]])
    /\ idem' = [idem EXCEPT ![k] = NoJob]
    /\ UNCHANGED <<jobs, jobTTL, active, processing, queue, worker, tasks,
                   req, nextId, origin, started, env, reply, now, call, sub,
                   proc>>

(***************************************************************************)
(* Specifications.  The environment values are configuration (each has a   *)
(* minimum of 1 in EnvSchema).                                             *)
(*   Spec      one job through all its attempts, with retries: the client's *)
(*             request and a repeat of it under the same idempotency key   *)
(*   SpecLive  Spec under fairness of the queue, the workers and handlers  *)
(*   SpecLimit requests without idempotency key and the jobs of one owner, *)
(*             no retries                                                  *)
(*   SpecIdem  requests with or without idempotency key, no retries        *)
(*   SpecFail  SpecIdem with failing store and queue calls                 *)
(*   SpecTTL   one client's requests one after the other, with or without  *)
(*             key, no retries, expiry of records and idempotency entries  *)
(*   SpecService  the job service mutators called directly                 *)
(*   SpecSweep one keyless request, no retries, time and the watchdog      *)
(*   SpecStuck keyless requests one after the other, two jobs at a time,   *)
(*             no retries, time and calls of getStuckJobs                  *)
(*   SpecSSE   one keyless request, one retry, a subscriber                *)
(*   SpecStatus  one keyless request, no retries, status route, subscriber *)
(*   SpecApi   one client calling the three routes, no retries             *)
(*   SpecShutdown  the worker process under signals and error events       *)
(*   SpecRecord  one keyless request, the mutators called directly for any *)
(*             id with any arguments, and reads of the records            *)
(***************************************************************************)
LifecycleEnv ==
    [MAX_CONCURRENT_DOWNLOADS_PER_USER |-> 3, JOB_MAX_ATTEMPTS |-> 3,
     WORKER_CONCURRENCY |-> 5, DOWNLOAD_DELAY_ENABLED |-> TRUE]

LimitEnv ==
    [MAX_CONCURRENT_DOWNLOADS_PER_USER |-> 1, JOB_MAX_ATTEMPTS |-> 1,
     WORKER_CONCURRENCY |-> 2, DOWNLOAD_DELAY_ENABLED |-> FALSE]

RetryEnv ==
    [MAX_CONCURRENT_DOWNLOADS_PER_USER |-> 1, JOB_MAX_ATTEMPTS |-> 2,
     WORKER_CONCURRENCY |-> 2, DOWNLOAD_DELAY_ENABLED |-> FALSE]

\* two jobs of one owner at a time, no retries
PairEnv ==
    [MAX_CONCURRENT_DOWNLOADS_PER_USER |-> 2, JOB_MAX_ATTEMPTS |-> 1,
     WORKER_CONCURRENCY |-> 2, DOWNLOAD_DELAY_ENABLED |-> FALSE]

Init == InitWith(LifecycleEnv)

InitPair == InitWith(PairEnv)

InitRetry == InitWith(RetryEnv)

InitLimit == InitWith(LimitEnv)

\* a request arrives, with or without x-idempotency-key
Arrive(limit) ==
    /\ started < limit
    /\ \E r \in Reqs, u \in Users, k \in Keys \cup {NoKey} :
          StartRequest(r, u, k)

\* a request without x-idempotency-key arrives
ArriveNoKey(limit) ==
    /\ started < limit
    /\ \E r \in Reqs, u \in Users : StartRequest(r, u, NoKey)

\* the workers and the calls their event handlers left running
Background ==
    \/ \E j \in Jobs : WorkerStep(j)
    \/ \E j \in Jobs : TaskStep(j)

Run ==
    \/ \E r \in Reqs : RequestStep(r)
    \/ Background

\* the first request of a client
ArriveFirst ==
    /\ started = 0
    /\ \E r \in Reqs, u \in Users, k \in Keys \cup {NoKey} :
          StartRequest(r, u, k)

\* the client repeats a request whose idempotency key has been recorded
ArriveRepeat ==
    /\ started = 1
    /\ \E r \in Reqs, u \in Users, k \in Keys :
          /\ idem[k] # NoJob
          /\ StartRequest(r, u, k)

Next == ArriveFirst \/ ArriveRepeat \/ Run

NextLimit ==
    \/ ArriveNoKey(LimitRequests)
    \/ \E r \in Reqs : RequestStepNoKey(r)
    \/ Background

NextIdem == Arrive(IdemRequests) \/ Run

Spec == Init /\ [][Next]_vars

\* Spec with a fair queue, fair workers and fair handlers: a request that
\* has arrived is handled to its answer, a waiting job is taken, a running
\* attempt goes on, and the calls the event handlers issued are carried out
SpecLive ==
    /\ Init /\ [][Next]_vars
    /\ \A r \in Reqs : WF_vars(RequestStep(r))
    /\ \A j \in Jobs : WF_vars(WorkerStep(j))
    /\ \A j \in Jobs : WF_vars(TaskStep(j))

SpecLimit == InitLimit /\ [][NextLimit]_vars

SpecIdem == InitLimit /\ [][NextIdem]_vars

NextFail == NextIdem \/ \E r \in Reqs : RequestFails(r)

SpecFail == InitLimit /\ [][NextFail]_vars

\* one client, one creation request after the other
ClientFree == \A r \in Reqs : ~InFlight(r)

ArriveClient == ClientFree /\ Arrive(IdemRequests)

NextTTL ==
    \/ ArriveClient
    \/ Run
    \/ \E j \in Jobs : ExpireJobRecord(j)
    \/ \E k \in Keys : ExpireIdempotency(k)

SpecTTL == InitLimit /\ [][NextTTL]_vars

\* one request creates a job; a direct caller of the service does the rest
ArriveService == CallerFree /\ ArriveNoKey(1)

NextService ==
    \/ ArriveService
    \/ \E r \in Reqs : RequestStepNoKey(r)
    \/ \E j \in Jobs : InvokeMarkProcessing(j)
    \/ \E j \in Jobs, progress \in ProgressInputs :
          InvokeUpdateProgress(j, progress)
    \/ \E j \in Jobs : InvokeMarkCompleted(j, Url)
    \/ \E j \in Jobs, canRetry \in BOOLEAN :
          InvokeMarkFailed(j, canRetry)
    \/ ServiceHset
    \/ ServiceZset
    \/ Tick

SpecService == InitLimit /\ [][NextService]_vars

\* one job and its single attempt, time and the watchdog's sweeps
NextSweep ==
    \/ ArriveNoKey(1)
    \/ \E r \in Reqs : RequestStepNoKey(r)
    \/ Background
    \/ Tick
    \/ \E stuckThresholdMs \in Thresholds : SweepScan(stuckThresholdMs)
    \/ SweepAdd
    \/ SweepHset

SpecSweep == InitLimit /\ [][NextSweep]_vars

\* the jobs of one owner, requested one after the other and processed two
\* at a time, time, and calls of getStuckJobs
ArriveOwner ==
    ClientFree /\ ArriveNoKey(env.MAX_CONCURRENT_DOWNLOADS_PER_USER)

NextStuck ==
    \/ ArriveOwner
    \/ \E r \in Reqs : RequestStepNoKey(r)
    \/ Background
    \/ Tick
    \/ \E stuckThresholdMs \in Thresholds :
          CallGetStuckJobs(stuckThresholdMs)

SpecStuck == InitPair /\ [][NextStuck]_vars

\* one job with one retry, and a subscriber
NextSSE ==
    \/ ArriveNoKey(1)
    \/ \E r \in Reqs : RequestStepNoKey(r)
    \/ Background
    \/ SubscriberStep

SpecSSE == InitRetry /\ [][NextSSE]_vars

\* one job and its single attempt, the status route, and a subscriber
\* without heartbeats
NextStatus ==
    \/ ArriveNoKey(1)
    \/ \E r \in Reqs : RequestStepNoKey(r)
    \/ Background
    \/ \E j \in Jobs : StatusRequest(j)
    \/ \E j \in Jobs : SubscribeGetJob(j)
    \/ WriteFinal \/ WriteInitial \/ Subscribe \/ OnMessage \/ Unsubscribe
    \/ OnAbort

SpecStatus == InitLimit /\ [][NextStatus]_vars

\* the three routes up to their status code, called by one client one
\* request after the other while the jobs wait in the queue: creation with
\* or without idempotency key, status requests, and a subscribe request up
\* to the answer of its getJob (its stream is followed in SpecSSE)
StatusClient(j) == ClientFree /\ StatusRequest(j)

SubscribeClient(j) == ClientFree /\ SubscribeGetJob(j)

NextApi ==
    \/ ArriveClient
    \/ \E r \in Reqs : RequestStep(r)
    \/ \E j \in Jobs : StatusClient(j)
    \/ \E j \in Jobs : SubscribeClient(j)

SpecApi == InitLimit /\ [][NextApi]_vars

\* the worker process, its signals and error events, and its shutdown
NextShutdown ==
    \/ \E signal \in Signals : OnSignal(signal)
    \/ \E kind \in ErrorEvents : OnError(kind)
    \/ WorkerClosed
    \/ RedisClosed
    \/ ForceExit

SpecShutdown == InitLimit /\ [][NextShutdown]_vars

\* The calls and the reads are about one id: the one the creation request
\* draws.  No record exists for it before that request, so calls made
\* earlier are calls for an id without a record.  The caller makes its
\* calls, then the record is read.
Target == 1

Written == reply.route # "status"

\* a read of the record between the calls of the direct caller
ReadJob == CallerFree /\ StatusRequest(Target)

CallMarkProcessing ==
    Written /\ InvokeFor("markJobProcessing", Target, 0, "", "", FALSE)

CallUpdateProgress(progress) ==
    Written /\ InvokeFor("updateJobProgress", Target, progress, "", "", FALSE)

CallMarkCompleted(url) ==
    Written /\ InvokeFor("markJobCompleted", Target, 0, url, "", FALSE)

CallMarkFailed(error, canRetry) ==
    Written /\ InvokeFor("markJobFailed", Target, 0, "", error, canRetry)

NextRecord ==
    \/ ArriveService
    \/ \E r \in Reqs : RequestStepNoKey(r)
    \/ CallMarkProcessing
    \/ \E progress \in ProgressInputs : CallUpdateProgress(progress)
    \/ \E url \in UrlInputs : CallMarkCompleted(url)
    \/ \E error \in ErrorInputs, canRetry \in BOOLEAN :
          CallMarkFailed(error, canRetry)
    \/ ServiceHset
    \/ ServiceZset
    \/ Tick
    \/ ReadJob

SpecRecord == InitLimit /\ [][NextRecord]_vars

(***************************************************************************)
(* Job records                                                             *)
(***************************************************************************)
Terminal(j) ==
    \/ Job(j).status = "completed"
    \/ Job(j).status = "failed" /\ ~Job(j).canRetry

Progress(j) == Job(j).progress

C2_UrlAndErrorMatchStatus ==
    \A j \in Jobs :
        Exists(jobs[j]) =>
            /\ (Job(j).downloadUrl # Null) <=> (Job(j).status = "completed")
            /\ (Job(j).error # Null) <=> (Job(j).status = "failed")
            /\ ~(Job(j).downloadUrl # Null /\ Job(j).error # Null)

\* C3: for every job record, progress is 0 whenever status is queued, and
\* progress is 100 iff status is completed.
C3_ProgressMatchesStatus ==
    \A j \in Jobs :
        Exists(jobs[j]) =>
            /\ Job(j).status = "queued" => Progress(j) = 0
            /\ (Progress(j) = 100) <=> (Job(j).status = "completed")

(***************************************************************************)
(* Job creation: idempotency and the per-owner limit                       *)
(***************************************************************************)
Moved(r) == req'[r] # req[r]

\* request r is answered in this step
Answered(r) == InFlight(r) /\ req'[r].pc = "idle"

QueueEntriesFor(k) ==
    {j \in Jobs : queue[j].state # "none" /\ queue[j].key = k}

RecordsFor(k) == {j \in Jobs : Exists(jobs[j]) /\ origin[j].key = k}

\* C4: a request with an idempotency key that arrives after a request with
\* the same key was answered 202 isNew=true with job id j (no other request
\* with that key being in flight) is answered 200 isNew=false with the same
\* id j, and exactly one job record and one queue entry exist for the key.
C4_SameKeySameJob ==
    (/\ reply.code # 0
     /\ reply.key # NoKey
     /\ reply.quiet
     /\ Cardinality(reply.prior) = 1)
    => LET j == CHOOSE x \in reply.prior : TRUE IN
         /\ reply.code = 200
         /\ reply.isNew = FALSE
         /\ reply.respId = String(j)
         /\ RecordsFor(reply.key) = {j}
         /\ QueueEntriesFor(reply.key) = {j}

\* the second of two sequential requests with one key has been answered
C4_Witness ==
    /\ reply.key # NoKey /\ reply.quiet
    /\ reply.prior = {1}
    /\ reply.code = 200

JobsOf(u) == {j \in Jobs : queue[j].state # "none" /\ queue[j].user = u}

Unfinished(j) == queue[j].state \in {"waiting", "active"} /\ ~Terminal(j)

Finished(j) ==
    /\ queue[j].state \in {"completed", "failed"}
    /\ Terminal(j)
    /\ ~\E t \in tasks : t.job = j

Creating(r) ==
    req[r].pc \in {"create", "expire", "setIdem", "incr", "incrExpire",
                   "enqueue"}

\* C6: with maximum N, a request that reaches the rate limit check after N
\* jobs of its owner were created, none of them terminal, is answered 429;
\* a request that reaches it after one of exactly N created jobs completed
\* or failed for good and its event handler has run, no other creation
\* being under way, is admitted.
C6_LimitThenRelease ==
    [][\A r \in Reqs :
         (req[r].pc = "rate" /\ Moved(r)) =>
            LET u == req[r].user
                N == env.MAX_CONCURRENT_DOWNLOADS_PER_USER
            IN /\ (Cardinality(JobsOf(u)) >= N
                   /\ \A j \in JobsOf(u) : Unfinished(j))
                  => Answered(r) /\ reply'.code = 429
               /\ (/\ Cardinality(JobsOf(u)) = N
                   /\ \E j \in JobsOf(u) : Finished(j)
                   /\ \A j \in JobsOf(u) : Finished(j) \/ Unfinished(j)
                   /\ \A o \in Reqs : ~Creating(o))
                  => req'[r].pc = "create"]_vars

\* one request was turned away, and after job 1 finished job 2 was created
C6_Witness ==
    /\ reply.rejectedBefore >= 1
    /\ reply.code = 202 /\ reply.respId = String(2)
    /\ Finished(1)

\* C7: the number of an owner's jobs that are queued, processing or
\* retryably failed never exceeds MAX_CONCURRENT_DOWNLOADS_PER_USER.
LiveRecords(u) ==
    {j \in Jobs : /\ Exists(jobs[j])
                  /\ Job(j).userId = u
                  /\ \/ Job(j).status \in {"queued", "processing"}
                     \/ Job(j).status = "failed" /\ Job(j).canRetry}

C7_NeverOverLimit ==
    \A u \in Users :
        Cardinality(LiveRecords(u)) <= env.MAX_CONCURRENT_DOWNLOADS_PER_USER

\* C8: a request answered 429 has mutated nothing: its lookups and the
\* rejecting step leave the store unchanged, and it never drew a job id.
C8_RejectedMutatesNothing ==
    [][\A r \in Reqs :
         Moved(r) =>
            /\ req[r].pc \in {"idem", "idemJob"} => store' = store
            /\ (Answered(r) /\ reply'.code = 429) =>
                  /\ store' = store
                  /\ nextId' = nextId
                  /\ req[r].pc = "rate"
                  /\ req[r].jobId = NoJob]_vars

C8_Witness == reply.code = 429

\* C9: creation is atomic: for every job id that no request is still
\* creating, the job record (queued, progress 0 when created), the
\* idempotency entry if a key was given, and the queue entry exist all
\* together or not at all.
C9_CreationAtomic ==
    \A j \in Jobs :
        (~\E r \in Reqs : Creating(r) /\ req[r].jobId = j) =>
            /\ Exists(jobs[j]) <=> queue[j].state # "none"
            /\ (Exists(jobs[j]) /\ origin[j].key # NoKey)
                  => idem[origin[j].key] # NoJob

\* C10: the per-owner counter is never negative.
C10_CounterNeverNegative ==
    \A u \in Users : active[u].exists => active[u].val >= 0

(***************************************************************************)
(* The worker's event handlers and the job service mutators                *)
(***************************************************************************)
\* the calls of decrementUserActiveJobs for job j that have not yet run
Releases(j) ==
    {t \in tasks : t.kind = "decr" /\ t.job = j /\ t.pc = "decr"}

\* the calls of markJobFailed for job j that have not yet run
Failures(j) ==
    {t \in tasks : t.kind = "fail" /\ t.job = j /\ t.pc = "hset"}

LegalStatusChanges ==
    {<<"queued", "processing">>, <<"processing", "completed">>,
     <<"processing", "failed">>, <<"failed", "queued">>}

\* C12: every change of a job record's status is queued to processing,
\* processing to completed, processing to failed, or failed to queued; a
\* failed job never goes directly to processing and a completed job never
\* changes status.
C12_StatusChangesLegal ==
    [][\A j \in Jobs :
         (Exists(jobs[j]) /\ Job(j).status' # Job(j).status)
            => <<Job(j).status, Job(j).status'>> \in LegalStatusChanges]_vars

\* the job record and the score of the called job as they were at the call
PreHash == call.pre[1][call.job]

PreJob == getJob(PreHash)

PreScore == call.pre[5][call.job]

\* the direct call of mutator op returns in this step
Returns(op) == call.op = op /\ call.pc # "returned" /\ call'.pc = "returned"

\* C13: markJobProcessing invoked on a job whose status is completed or
\* failed returns to the caller and leaves the job record (status,
\* progress, downloadUrl, error) and the processing set unchanged.
C13_MarkProcessingIgnoredWhenFinished ==
    [][(Returns("markJobProcessing")
        /\ PreJob.status \in {"completed", "failed"})
       => /\ Job(call.job)'.status = PreJob.status
          /\ Job(call.job)'.progress = PreJob.progress
          /\ Job(call.job)'.downloadUrl = PreJob.downloadUrl
          /\ Job(call.job)'.error = PreJob.error
          /\ processing' = call.pre[5]]_vars

\* C14: markJobProcessing invoked on a job that is already processing is a
\* no-op: the stored progress, the job's score in the processing set and
\* every other field are unchanged.
C14_MarkProcessingNoOpWhenProcessing ==
    [][(Returns("markJobProcessing") /\ PreJob.status = "processing")
       => /\ jobs'[call.job] = PreHash
          /\ processing'[call.job] = PreScore]_vars

\* C15: updateJobProgress called for a processing job with a value lower
\* than the stored progress leaves the stored progress at its previous
\* value.
C15_LowerProgressRejected ==
    [][(Returns("updateJobProgress")
        /\ PreJob.status = "processing"
        /\ call.progress < PreJob.progress)
       => Job(call.job)'.progress = PreJob.progress]_vars

\* C16: for every input percent the progress stored by updateJobProgress
\* lies in [0, 99]; the value 100 is stored only by markJobCompleted.
C16_ProgressClamped ==
    [][/\ Returns("updateJobProgress")
          => \/ jobs'[call.job] = PreHash
             \/ Job(call.job)'.progress \in 0..99
       /\ \A j \in Jobs :
            (Job(j)'.progress = 100 /\ Job(j).progress # 100)
               => call.op = "markJobCompleted"]_vars

\* C17: updateJobProgress invoked for a job that is queued, completed,
\* failed or that has no record leaves the store unchanged: no progress is
\* written and no record created.
C17_ProgressOnlyWhileProcessing ==
    [][(Returns("updateJobProgress") /\ PreJob.status # "processing")
       => store' = call.pre]_vars

\* C18: markJobCompleted invoked on a job that is already completed leaves
\* the job record (downloadUrl and updatedAt included), the processing set
\* and the owner's counter unchanged.
C18_MarkCompletedIdempotent ==
    [][(Returns("markJobCompleted") /\ PreJob.status = "completed")
       => /\ jobs'[call.job] = PreHash
          /\ processing' = call.pre[5]
          /\ active' = call.pre[4]]_vars

\* a call of a job service mutator for job j has been made and has not
\* returned: the worker is inside or entering markJobProcessing,
\* updateJobProgress or markJobCompleted, or an un-awaited markJobFailed
\* is outstanding
MutatorInProgress(j) ==
    \/ worker[j].pc \in {"mp_hset", "mp_zadd", "upd", "mc_hset", "mc_zrem"}
    \/ \E t \in tasks : t.kind = "fail" /\ t.job = j

\* C19: whenever no mutator call is in progress for a job, the job's id is
\* in the processing set if and only if its stored status is processing.
C19_ProcessingSetMatchesStatus ==
    \A j \in Jobs :
        (Exists(jobs[j]) /\ ~MutatorInProgress(j))
           => (processing[j] # NoScore <=> Job(j).status = "processing")

\* the record of job j as it was when the sweep scanned the processing set
ScannedJob(j) == getJob(call.pre[1][j])

\* the sweep has written its last change for the job it is handling
SweepHandled == call.op = "sweep" /\ call.pc = "hset" /\ call'.pc # "hset"

\* C20: a job in state processing whose processing-start score is older
\* than the stuck threshold is, once the sweep has handled it, either
\* queued with attempts one higher and with an entry added to the queue, or,
\* if its attempts had reached the maximum, failed with canRetry=false and
\* its owner's counter lowered.
C20_SweepRequeuesOrFails ==
    [][(/\ SweepHandled
        /\ ScannedJob(call.job).status = "processing"
        /\ call.pre[5][call.job] < call.cutoff)
       => LET j == call.job
              before == ScannedJob(j)
              owner == before.userId
          IN IF before.attempts < env.JOB_MAX_ATTEMPTS
             THEN /\ Job(j)'.status = "queued"
                  /\ Job(j)'.attempts = before.attempts + 1
                  /\ j \in call'.added
             ELSE /\ Job(j)'.status = "failed"
                  /\ ~Job(j)'.canRetry
                  /\ \/ ~active'[owner].exists
                     \/ active'[owner].val < call.pre[4][owner].val]_vars

(***************************************************************************)
(* Subscribers and the status route                                        *)
(***************************************************************************)
\* no connection is subscribed to the channel of job j
NoSubscribers(j) == ~(sub.subscribed /\ sub.job = j)

\* the outstanding calls of markJobFailed for job j that have not written
FailuresToWrite(j) ==
    \E t \in tasks : t.job = j /\ t.kind = "fail" /\ t.pc = "hset"

\* C21: with no subscriber on a job's channel every worker mutator can take
\* its step (the publish does not fail) and writes the record as the
\* mutator's hset defines it, subscribers or not; a status request made
\* after the job has finished returns the final status and progress, and
\* the downloadUrl of a completed job or the error of a failed one.
C21_MutatorsNeedNoSubscriber ==
    /\ [](\A j \in Jobs :
            NoSubscribers(j) =>
               /\ worker[j].pc = "mp_hset" => ENABLED MarkProcessingHset(j)
               /\ worker[j].pc = "upd" => ENABLED UpdateProgress(j)
               /\ worker[j].pc = "mc_hset" => ENABLED MarkCompletedHset(j)
               /\ FailuresToWrite(j) => ENABLED FailTaskHset(j))
    /\ [][\A j \in Jobs :
            /\ (worker[j].pc = "mp_hset" /\ worker'[j].pc = "mp_zadd")
                  => jobs'[j] = markJobProcessingHash(jobs[j])
            /\ (worker[j].pc = "mc_hset" /\ worker'[j].pc = "mc_zrem")
                  => jobs'[j] = markJobCompletedHash(jobs[j], Url)
            /\ (worker[j].pc = "upd" /\ worker'[j].i # worker[j].i)
                  => jobs'[j] = updateJobProgress(jobs[j],
                                   intervalProgress(worker[j].i, worker[j].n))
            /\ (FailuresToWrite(j) /\ jobs'[j] # jobs[j])
                  => /\ Job(j)'.status = "failed"
                     /\ Job(j)'.error = NotFoundMsg
            /\ (StatusRequest(j) /\ Finished(j))
                  => /\ reply'.code = 200
                     /\ reply'.body.status = Job(j).status
                     /\ queue[j].state = "completed"
                           => /\ reply'.body.status = "completed"
                              /\ reply'.body.progress = 100
                              /\ reply'.body.downloadUrl = Url
                     /\ queue[j].state = "failed"
                           => /\ reply'.body.status = "failed"
                              /\ reply'.body.error = NotFoundMsg]_vars

\* nobody ever subscribed, the job completed, and a status request made
\* afterwards has been answered with the completed record
C21_Witness ==
    /\ sub.pc = "idle"
    /\ \E j \in Jobs :
          /\ Finished(j)
          /\ queue[j].state = "completed"
          /\ reply.route = "status"
          /\ reply.respId = String(j)
          /\ reply.body.status = "completed"
          /\ reply.body.downloadUrl = Url

\* the events of the stream that were written for published updates
Delivered ==
    SelectSeq(sub.stream,
              LAMBDA e : e.from \notin {"snapshot", "heartbeat"})

\* C22: every step of the subscribe handler (the read of the job, the
\* writes to the stream, subscribe, message delivery, heartbeat, disconnect
\* and unsubscribe) leaves the job records, the idempotency index, the
\* counters, the processing set, the queue, the workers and their
\* outstanding calls unchanged; and whatever the subscriber does, a worker
\* that is inside processDownloadJob and an outstanding handler call can
\* take their next step.
C22_SubscriberChangesNothing ==
    /\ [](\A j \in Jobs :
            /\ worker[j].pc # "idle" => ENABLED WorkerStep(j)
            /\ (\E t \in tasks : t.job = j /\ t.kind = "fail")
                  => ENABLED TaskStep(j))
    /\ [][SubscriberStep
            => /\ store' = store
               /\ worker' = worker
               /\ tasks' = tasks]_vars

\* the client received an update, disconnected before the job ended, and
\* the job went on to complete
C22_Witness ==
    /\ sub.pc = "closed"
    /\ Delivered # <<>>
    /\ \A n \in 1..Len(sub.stream) :
          sub.stream[n].event \notin {"complete", "error"}
    /\ queue[sub.job].state = "completed"
    /\ Job(sub.job).status = "completed"

\* a completed or failed update has been written to the stream
TerminalDelivered ==
    \E n \in 1..Len(sub.stream) : sub.stream[n].event \in {"complete", "error"}

\* C23: once an update with status completed or failed has been written to
\* a subscriber's stream, nothing more is written to it: no status,
\* progress, complete, error or heartbeat event.
C23_NothingAfterTerminalEvent ==
    [][TerminalDelivered => sub'.stream = sub.stream]_vars

\* the error event of the first attempt has been written and the
\* subscription given up, and an update of the retry has reached the
\* connection, to be dropped by the message handler
C23_Witness ==
    /\ TerminalDelivered
    /\ ~sub.isActive
    /\ sub.inbox # <<>>
    /\ sub.stream[Len(sub.stream)].from = "markJobFailed"

\* the published updates for which an event was written, in stream order
DeliveredUpdates ==
    [n \in 1..Len(Delivered) |->
        [op |-> Delivered[n].from, data |-> Delivered[n].data]]

\* u is a run of consecutive elements of p
IsSegment(u, p) ==
    \E k \in 0..Len(p) :
        /\ k + Len(u) <= Len(p)
        /\ \A n \in 1..Len(u) : u[n] = p[k + n]

\* C24: the events written to a subscriber's stream for published updates
\* appear in the order in which the updates were published for the job,
\* and the snapshot of the job's state is the first event of the stream.
C24_DeliveryInPublishOrder ==
    /\ sub.stream # <<>> => sub.stream[1].from = "snapshot"
    /\ \A n \in 2..Len(sub.stream) : sub.stream[n].from # "snapshot"
    /\ IsSegment(DeliveredUpdates, sub.since)

\* the subscriber has received the snapshot and then two different updates
C24_Witness ==
    /\ Len(DeliveredUpdates) >= 2
    /\ DeliveredUpdates[1] # DeliveredUpdates[2]
    /\ sub.stream[1].event = "status"

\* C25: a subscriber that connected while the job was not terminal gets,
\* after the snapshot, every update published since the snapshot was read:
\* while its stream is open, the updates written to it and those waiting on
\* its connection are exactly the updates published since the read.
C25_NoUpdateMissed ==
    sub.pc = "open" => DeliveredUpdates \o sub.inbox = sub.since

\* the SSE event type of the update published by a mutator
ExpectedEvent(from) ==
    CASE from = "updateJobProgress" -> "progress"
      [] from = "markJobProcessing" -> "status"
      [] from = "markJobCompleted" -> "complete"
      [] from = "markJobFailed" -> "error"
      [] from = "heartbeat" -> "heartbeat"

\* C26: every event of a subscriber's stream that was written for a
\* published update has the type given by the update: progress for an
\* update of updateJobProgress, status for a change to processing, complete
\* for a completion, error for a failure; a keepalive has type heartbeat
\* and no other event has.
C26_EventTypeByContent ==
    \A n \in 1..Len(sub.stream) :
        LET e == sub.stream[n] IN
          /\ e.from # "snapshot" => e.event = ExpectedEvent(e.from)
          /\ e.event = "heartbeat" => e.from = "heartbeat"

(***************************************************************************)
(* Status codes of the routes                                              *)
(***************************************************************************)
\* the step of creation request r in which its outcome is settled: the
\* replay is answered, the rate limit rejects, or the rate limit admits
Settles(r) ==
    /\ req[r].pc \in {"idemJob", "rate"}
    /\ Answered(r) \/ req'[r].pc = "create"

AtOrOverMaximum(u) ==
    activeJobsOf(u) >= env.MAX_CONCURRENT_DOWNLOADS_PER_USER

\* 202 goes with isNew=true and a created job, 200 with isNew=false and the
\* job recorded for the request's idempotency key; the status and the
\* subscribe route answer 404 exactly when the id has no record
CodesOtherThan429 ==
    /\ \A r \in Reqs :
          Answered(r) =>
             /\ reply'.code \in {200, 202, 429}
             /\ reply'.code = 202
                   <=> /\ reply'.isNew
                       /\ reply'.respId = String(req[r].jobId)
                       /\ req[r].pc = "enqueue"
                       /\ Exists(jobs[req[r].jobId])
             /\ reply'.code = 200
                   <=> /\ ~reply'.isNew
                       /\ req[r].key # NoKey
                       /\ idem[req[r].key] # NoJob
                       /\ reply'.respId = String(idem[req[r].key])
    /\ \A j \in Jobs :
          /\ StatusRequest(j) => (reply'.code = 404 <=> ~Exists(jobs[j]))
          /\ StatusRequest(j) => reply'.code \in {200, 404}
          /\ SubscribeGetJob(j) => (sub'.code = 404 <=> ~Exists(jobs[j]))

\* C27 as stated: 202 exactly for a new job, 200 exactly for the existing
\* job of an idempotency key, 429 exactly when the owner is at or over the
\* maximum, 404 exactly when the id has no record.
C27_CodesByOutcome ==
    [][/\ CodesOtherThan429
       /\ \A r \in Reqs :
            Settles(r) =>
               ((Answered(r) /\ reply'.code = 429)
                   <=> AtOrOverMaximum(req[r].user))]_vars

\* C27, amended: the replay is decided before the rate limit, so 429 is
\* answered exactly when the request is not answered as a replay and the
\* owner's counter, read by the rate limit check, is at or over the maximum.
C27_CodesByOutcomeReplayFirst ==
    [][/\ CodesOtherThan429
       /\ \A r \in Reqs :
            Settles(r) =>
               ((Answered(r) /\ reply'.code = 429)
                   <=> /\ req[r].pc = "rate"
                       /\ AtOrOverMaximum(req[r].user))]_vars

\* a replay has been answered 200 while its owner is at the maximum, a
\* request has been rejected before it, and a subscribe request for an id
\* without record has been answered 404
C27_Witness ==
    /\ reply.route = "async" /\ reply.code = 200 /\ ~reply.isNew
    /\ AtOrOverMaximum(reply.user)
    /\ sub.code = 404

(***************************************************************************)
(* Retries                                                                 *)
(***************************************************************************)
\* the record of job j says failed for good
FailedForGood(j) == Job(j).status = "failed" /\ ~Job(j).canRetry

\* the call of markJobFailed for job j that writes in this step
WritingFailure(j) ==
    {t \in tasks : /\ t.job = j /\ t.kind = "fail" /\ t.pc = "hset"
                   /\ t \notin tasks'}

\* C28: a job is attempted at most JOB_MAX_ATTEMPTS times; the failure of
\* attempt k is recorded with attempts=k and with canRetry=true exactly
\* when k is below the maximum; and once the record says failed with
\* canRetry=false the job is not processed again and canRetry does not
\* become true again.
C28_AttemptsBoundedAndFinal ==
    [][\A j \in Jobs :
         /\ queue[j].attemptsMade <= env.JOB_MAX_ATTEMPTS
         /\ (worker[j].pc = "idle" /\ worker'[j].pc # "idle")
               => queue[j].attemptsMade < env.JOB_MAX_ATTEMPTS
         /\ \A t \in Failures(j)' \ Failures(j) :
               /\ t.attempts = queue'[j].attemptsMade
               /\ t.canRetry <=> t.attempts < env.JOB_MAX_ATTEMPTS
         /\ \A t \in WritingFailure(j) :
               /\ Job(j)'.attempts = t.attempts
               /\ Job(j)'.canRetry = t.canRetry
         /\ FailedForGood(j)
               => /\ ~Job(j)'.canRetry
                  /\ Job(j)'.status # "processing"
                  /\ worker'[j].pc = "idle"]_vars

\* C29: a failure because the file is not found in storage is recorded
\* with canRetry=false, by the call of markJobFailed and in the record, at
\* the first failure, and the job is not attempted again.
C29_NotFoundIsFinal ==
    \A j \in Jobs :
        /\ \A t \in tasks :
              (t.kind = "fail" /\ t.error = NotFoundMsg) => ~t.canRetry
        /\ (Job(j).status = "failed" /\ Job(j).error = NotFoundMsg)
              => ~Job(j).canRetry
        /\ queue[j].attemptsMade >= 1 => queue[j].state = "failed"

\* C30: once a job record is completed, or failed with canRetry=false, no
\* step changes its status, progress, downloadUrl, error, canRetry or
\* attempts.
C30_TerminalRecordImmutable ==
    [][\A j \in Jobs :
         Terminal(j) =>
            /\ Job(j)'.status = Job(j).status
            /\ Job(j)'.progress = Job(j).progress
            /\ Job(j)'.downloadUrl = Job(j).downloadUrl
            /\ Job(j)'.error = Job(j).error
            /\ Job(j)'.canRetry = Job(j).canRetry
            /\ Job(j)'.attempts = Job(j).attempts]_vars

\* the fields of a decoded record
Fields ==
    {"id", "userId", "status", "progress", "downloadUrl", "error",
     "canRetry", "attempts", "createdAt", "updatedAt"}

\* the record of Target as getJob decodes it
Read == Job(Target)

\* the hset of the directly called mutator op takes place in this step
Hsets(op) == call.op = op /\ call.pc = "hset" /\ call'.pc # "hset"

\* the fields outside fs read back as they did before the step
Kept(fs) == \A f \in Fields \ fs : Read'[f] = Read[f]

\* the createJob of request r writes the record in this step
Creates(r) == req[r].pc = "create" /\ req'[r].pc = "expire"

\* a read of the record is answered in this step
Reads == reply' # reply /\ reply'.route = "status"

\* the read changes nothing and returns null exactly when there is no record
PureRead ==
    Reads =>
       /\ store' = store
       /\ reply'.code = 404 <=> ~Exists(jobs[Target])
       /\ reply'.code = 200 <=> Exists(jobs[Target])
       /\ reply'.code = 200 => reply'.body = Read

\* what createJob wrote reads back
CreatedReadsBack ==
    \A r \in Reqs :
        Creates(r) =>
           Job(req[r].jobId)' =
              [exists |-> TRUE, id |-> String(req[r].jobId),
               userId |-> req[r].user, status |-> "queued", progress |-> 0,
               downloadUrl |-> Null, error |-> Null, canRetry |-> FALSE,
               attempts |-> 0, createdAt |-> now, updatedAt |-> now]

\* what markJobProcessing and updateJobProgress wrote reads back
NumbersReadBack ==
    /\ Hsets("markJobProcessing") =>
          /\ Read'.status = "processing" /\ Read'.progress = 0
          /\ Read'.updatedAt = now
          /\ Kept({"status", "progress", "updatedAt"})
    /\ Hsets("updateJobProgress") =>
          /\ Read'.progress = call.progress
          /\ Read'.updatedAt = now
          /\ Kept({"progress", "updatedAt"})

Nullable(str) == IF str = "" THEN Null ELSE str

BeingCreated(j) == \E r \in Reqs : req[r].pc = "expire" /\ req[r].jobId = j

\* C32: every job record present in the store carries an expiry, also
\* after a mutator was called for an id without record (createJob's own
\* hset-then-expire aside), and no step deletes a job record.
C32_RecordsCarryExpiry ==
    /\ [](\A j \in Jobs : (Exists(jobs[j]) /\ ~BeingCreated(j)) => jobTTL[j])
    /\ [][\A j \in Jobs : Exists(jobs[j]) => Exists(jobs'[j])]_vars

\* a call of getStuckJobs returns in this step
StuckReturned == call'.op = "getStuckJobs" /\ call' # call

\* the members of the processing set whose score is at most cutoff
StartedBy(cutoff) ==
    {j \in Jobs : processing[j] # NoScore /\ processing[j] <= cutoff}

\* C33: getStuckJobs(threshold) returns exactly the ids in the processing
\* set whose score is at most now minus threshold, none whose processing
\* started later, and modifies nothing.
C33_StuckJobsExact ==
    [][StuckReturned =>
          /\ call'.found = StartedBy(call'.cutoff)
          /\ \A j \in Jobs : (processing[j] # NoScore
                              /\ processing[j] > call'.cutoff)
                                => j \notin call'.found
          /\ store' = store
          /\ UNCHANGED <<queue, worker, tasks, req>>]_vars

\* a call has returned one id and left out another that is in the
\* processing set with a later score
C33_Witness ==
    /\ call.op = "getStuckJobs"
    /\ \E j, k \in Jobs :
          /\ j \in call.found /\ k \notin call.found
          /\ processing[j] # NoScore /\ processing[j] <= call.cutoff
          /\ processing[k] # NoScore /\ processing[k] > call.cutoff

\* a create, complete or fail operation is in progress for owner u
OwnerBusy(u) ==
    \/ \E r \in Reqs : InFlight(r) /\ req[r].user = u
    \/ \E t \in tasks : t.user = u
    \/ \E j \in Jobs : /\ queue[j].state # "none" /\ queue[j].user = u
                       /\ worker[j].pc \in {"mc_hset", "mc_zrem"}

\* the owner's jobs that are queued, processing or failed with canRetry
Occupying(u) ==
    {j \in Jobs :
        /\ Exists(jobs[j]) /\ Job(j).userId = u
        /\ \/ Job(j).status \in {"queued", "processing"}
           \/ Job(j).status = "failed" /\ Job(j).canRetry}

\* C34: whenever no create, complete or fail operation is in progress for
\* an owner, the owner's counter equals the number of the owner's jobs
\* that are queued, processing or failed with canRetry=true.
C34_CounterMatchesJobs ==
    \A u \in Users :
        ~OwnerBusy(u) => activeJobsOf(u) = Cardinality(Occupying(u))

\* the worker is executing an attempt of j: markJobProcessing has returned,
\* markJobCompleted has not been called and nothing was thrown
Executing(j) == worker[j].pc \in {"upd", "s3", "mc_hset"}

\* C35: while a worker is executing an attempt of a job, the job's stored
\* status is processing and its id is in the processing set, whatever the
\* un-awaited calls of the previous attempt's failed handler do.
C35_ExecutingMeansProcessing ==
    \A j \in Jobs :
        Executing(j) =>
           /\ Job(j).status = "processing"
           /\ processing[j] # NoScore

\* the owner's counter counts the owner's other occupying jobs only
SlotReleased(j) ==
    activeJobsOf(Job(j).userId) =
        Cardinality(Occupying(Job(j).userId) \ {j})

\* C36: under fairness of the work queue and the workers, every job for
\* which a record was created eventually is completed, or failed with
\* canRetry=false, with its owner's slot released.
C36_EveryJobSettles ==
    \A j \in Jobs :
        Exists(jobs[j]) ~> (Terminal(j) /\ SlotReleased(j))

\* how far a status is along queued, processing, completed or failed
Rank(status) ==
    CASE status = "queued" -> 0
      [] status = "processing" -> 1
      [] status \in {"completed", "failed"} -> 2
      [] OTHER -> -1

\* the record job is at least as advanced as the published update
AsAdvanced(job, update) ==
    /\ Rank(job.status) >= Rank(update.status)
    /\ "progress" \in DOMAIN update => job.progress >= update.progress

\* the message handler writes the event of the next message in this step
Delivers ==
    /\ sub.inbox # <<>>
    /\ sub'.inbox = Tail(sub.inbox)
    /\ Len(sub'.stream) = Len(sub.stream) + 1

\* a later attempt has begun since the next message was published: a
\* markJobProcessing was published after it
RestartedSince ==
    \E k \in 2..Len(sub.inbox) : sub.inbox[k].op = "markJobProcessing"

Updates(j) == worker[j].pc = "upd" /\ worker'[j] # worker[j]

\* C38: within one attempt, for every number of progress intervals, the
\* values passed to updateJobProgress are non-decreasing, each lies in
\* 0..90, the last one is 90, and progress 100 is written only by the
\* markJobCompleted that follows.
C38_LoopProgressUpTo90 ==
    [][\A j \in Jobs :
         /\ Updates(j) =>
               /\ Progress(j)' \in 0..90
               /\ worker[j].i > 1 => Progress(j)' >= Progress(j)
               /\ worker[j].i = worker[j].n => Progress(j)' = 90
               /\ worker[j].i < worker[j].n => worker'[j].pc = "upd"
         /\ (Progress(j)' = 100 /\ Progress(j) # 100) =>
               /\ worker[j].pc = "mc_hset"
               /\ worker'[j].pc = "mc_zrem"
               /\ Job(j)'.status = "completed"]_vars

\* an attempt with the largest number of intervals has made its last
\* update, after a lower one
C38_Witness ==
    \E j \in Jobs :
        /\ worker[j].pc = "s3"
        /\ worker[j].n = MaxIntervals
        /\ MaxIntervals > 1
        /\ Progress(j) = 90

\* an event reaches the process in this step
Receives == Len(proc'.events) = Len(proc.events) + 1

\* the event received in this step
Received == proc'.events[Len(proc'.events)]

\* the event received in this step changes nothing but the record of it
Ignored == proc' = [proc EXCEPT !.events = proc'.events]

AllClosed == <<"worker", "redis", "s3">>

\* the shutdown body runs at most once, the resources are closed in the
\* order worker, Redis, S3, and the exit code is 0 exactly when all three
\* were closed
ShutdownOnceInOrder ==
    /\ proc.runs <= 1
    /\ \E n \in 0..3 : proc.closed = SubSeq(AllClosed, 1, n)
    /\ proc.pc = "exited" => proc.code \in {0, 1}
    /\ proc.pc = "exited" => (proc.code = 0 <=> proc.closed = AllClosed)
    /\ proc.pc # "exited" => proc.code = NoExit

====
